---- MODULE Spec2Model ----
(***************************************************************************)
(* Model of examples/fingerprint_pi5.py: the menu loop of main(), the two  *)
(* composite protocols enroll_finger() and get_fingerprint(), the delete   *)
(* and quit actions, the indicator line (led_line) and the serial channel. *)
(* The adafruit_fingerprint library is the environment: every primitive is *)
(* one blocking round trip that hands back a status code or raises.        *)
(***************************************************************************)
EXTENDS Integers, Sequences, FiniteSets, TLC

\* ------------------------------------------------------------- bounds
\* Most CaptureImage polls the model follows inside one run of a polling
\* loop: the capture loop of an enrollment pass, the poll of get_fingerprint,
\* the lift loop of enroll_finger.
MaxCapturePolls == 4
MaxFindPolls == 2
MaxLiftPolls == 2

\* ------------------------------------------------- status vocabulary
\* Status codes the program compares against (adafruit_fingerprint.*).
OK == "OK"
NOFINGER == "NOFINGER"
IMAGEFAIL == "IMAGEFAIL"
IMAGEMESS == "IMAGEMESS"
FEATUREFAIL == "FEATUREFAIL"
INVALIDIMAGE == "INVALIDIMAGE"
ENROLLMISMATCH == "ENROLLMISMATCH"
BADLOCATION == "BADLOCATION"
FLASHERR == "FLASHERR"
\* A status code the program names nowhere: it falls into the else branches.
OTHERCODE == "OTHERCODE"
\* The round trip did not hand back a status: the library raised.
RAISED == "RAISED"

\* What the sensor can answer to each primitive.
GetImageReplies == {OK, NOFINGER, IMAGEFAIL, OTHERCODE, RAISED}
Image2TzReplies == {OK, IMAGEMESS, FEATUREFAIL, INVALIDIMAGE, OTHERCODE, RAISED}
SearchReplies == {OK, OTHERCODE, RAISED}
CreateModelReplies == {OK, ENROLLMISMATCH, OTHERCODE, RAISED}
StoreModelReplies == {OK, BADLOCATION, FLASHERR, OTHERCODE, RAISED}
DeleteModelReplies == {OK, BADLOCATION, OTHERCODE, RAISED}
VerifyReplies == {OK, OTHERCODE, RAISED}
ReadTemplatesReplies == {OK, OTHERCODE, RAISED}

\* Slot ids and confidences a search reply can carry.
ReplyIds == {1, 2}
ReplyConfidences == {50, 100}
\* finger.finger_id / finger.confidence before any search.
None == -1

\* ------------------------------------------------------- user input
\* Lines the user can type at the menu prompt.
MenuLines == {"e", "E", "f", "d", "q", "x"}
\* str.lower() on the menu line.
Lower(s) == IF s = "E" THEN "e" ELSE s

\* Lines the user can type at a slot prompt, as sequences of characters.
SlotLines == { <<"0">>, <<"1">>, <<"1", "2", "7">>, <<"1", "2", "8">>,
               <<"-", "1">>, <<"a">>, << >> }
Digits == <<"0", "1", "2", "3", "4", "5", "6", "7", "8", "9">>
IsDigit(ch) == \E d \in 1..10 : Digits[d] = ch
DigitVal(ch) == (CHOOSE d \in 1..10 : Digits[d] = ch) - 1
RECURSIVE DigitsVal(_)
DigitsVal(s) == IF s = << >> THEN 0
                ELSE 10 * DigitsVal(SubSeq(s, 1, Len(s) - 1)) + DigitVal(s[Len(s)])
\* int(text): an optional sign and at least one digit, else ValueError.
IntParses(s) ==
    LET body == IF s # << >> /\ s[1] \in {"-", "+"} THEN Tail(s) ELSE s
    IN  body # << >> /\ \A k \in 1..Len(body) : IsDigit(body[k])
IntOf(s) ==
    IF s[1] = "-" THEN 0 - DigitsVal(Tail(s))
    ELSE IF s[1] = "+" THEN DigitsVal(Tail(s))
    ELSE DigitsVal(s)

\* ------------------------------------------------------------ state
VARIABLES
    pc,          \* where the program is
    led,         \* value of led_line
    chipOpen,    \* the gpiod chip is open
    uartOpen,    \* the serial port is open
    chan,        \* requests written to the channel and not yet answered
    trace,       \* events since the menu line was read: round trips and led writes
    c,           \* main: the lowered menu line
    location,    \* main: the parsed slot id
    fingerimg,   \* enroll_finger: the pass
    i,           \* enroll_finger: the last status
    polls,       \* polls made in the current polling loop
    ret,         \* return value of the last enroll_finger / get_fingerprint
    finger_id,   \* finger.finger_id
    confidence,  \* finger.confidence
    report,      \* what main printed for the last find action
    raised       \* the handler of __main__ caught an exception

vars == << pc, led, chipOpen, uartOpen, chan, trace, c, location, fingerimg, i,
           polls, ret, finger_id, confidence, report, raised >>

NoReport == [kind |-> "none", id |-> None, conf |-> None]

Init ==
    /\ pc = "setup_gpio"
    /\ led = 0
    /\ chipOpen = FALSE
    /\ uartOpen = FALSE
    /\ chan = << >>
    /\ trace = << >>
    /\ c = ""
    /\ location = 0
    /\ fingerimg = 0
    /\ i = OK
    /\ polls = 0
    /\ ret = FALSE
    /\ finger_id = None
    /\ confidence = None
    /\ report = NoReport
    /\ raised = FALSE

\* ------------------------------------------------- channel and events
Request(op, arg, line) == [op |-> op, arg |-> arg, line |-> line]
\* A completed round trip as an event of the trace.
\* `data` is the payload the answer carried (a search answer: <<id, confidence>>).
Trip(req, st, data) ==
    [op |-> req.op, arg |-> req.arg, line |-> req.line, st |-> st, data |-> data]
\* A write to the indicator line as an event of the trace.
LedWrite(v, line) == [op |-> "Led", arg |-> v, line |-> line, st |-> OK, data |-> << >>]
\* chip.close() and uart.close(), as events of the same shape.
CloseEvent(what, line) ==
    [op |-> "Close", arg |-> what, line |-> line, st |-> OK, data |-> << >>]

\* The command frame written a second time before the answer is read.
Send_Resent(op, arg, line) ==
    chan' = Append(Append(chan, Request(op, arg, line)), Request(op, arg, line))
\* The library writes the command frame and blocks for the answer.
Send(op, arg, line) == chan' = Append(chan, Request(op, arg, line))
\* The answer (or the failure) of the oldest outstanding request arrives.
ReceiveData(st, data) ==
    /\ chan # << >>
    /\ trace' = Append(trace, Trip(Head(chan), st, data))
    /\ chan' = Tail(chan)
Receive(st) == ReceiveData(st, << >>)

\* Control moves on inside main().
Goto(p) ==
    /\ pc' = p
    /\ raised' = raised
\* A handler that swallows the exception and goes on with the menu loop.
Propagate_Swallowed ==
    /\ pc' = "read_templates"
    /\ raised' = raised
\* An exception leaves main(): __main__ prints it and exits with 1.
Propagate ==
    /\ pc' = "exit1"
    /\ raised' = TRUE

\* ------------------------------------------- the program's decisions
\* The result of verify_password() ignored.
VerifyPassed_Ignored(st) == TRUE
\* main: finger.verify_password() != OK exits.
VerifyPassed(st) == st = OK
\* main: finger.read_templates() != OK raises RuntimeError.
TemplatesRead(st) == st = OK
\* The lower test of the enroll range written with >= instead of >.
EnrollLocationValid_OffByOne(loc) == loc >= 0 /\ loc < 128
\* main, enroll: location > 0 and location < 128.
EnrollLocationValid(loc) == loc > 0 /\ loc < 128
\* main, delete: location > 0 and location < 128.
DeleteLocationValid(loc) == loc > 0 /\ loc < 128
\* The delete test catching only the bad location.
Deleted_NotBadLocation(st) == st # BADLOCATION
\* main, delete: finger.delete_model(location) == OK.
Deleted(st) == st = OK
\* The identification poll repeated on NOFINGER only.
ImageWaiting_OnlyNoFinger(st) == st = NOFINGER
\* get_fingerprint: while finger.get_image() != OK.
ImageWaiting(st) == st # OK
\* get_fingerprint: finger.image_2_tz(1) != OK returns False.
TemplateFailed(st) == st # OK
\* The search status test inverted.
SearchFailed_Inverted(st) == st = OK
\* get_fingerprint: finger.finger_search() != OK returns False.
SearchFailed(st) == st # OK
\* The capture loop's dispatch without the NOFINGER branch.
CaptureStep_NoFingerFails(st) ==
    IF st = OK THEN "break" ELSE "fail"
\* enroll_finger: the capture loop's dispatch on the status of get_image().
CaptureStep(st) ==
    IF st = OK THEN "break"
    ELSE IF st = NOFINGER THEN "poll"
    ELSE IF st = IMAGEFAIL THEN "fail"
    ELSE "fail"
\* The template test catching only the named error codes.
Templated_NamedErrorsOnly(st) == st \notin {IMAGEMESS, INVALIDIMAGE}
\* enroll_finger: image_2_tz(fingerimg) == OK.
Templated(st) == st = OK
\* enroll_finger: the pass after which the finger must be lifted.
LiftAfter(img) == img = 1
\* The lift loop written as: while i == OK.
LiftPending_WhileOk(st) == st = OK
\* enroll_finger: while i != NOFINGER.
LiftPending(st) == st # NOFINGER
\* enroll_finger: for fingerimg in range(1, 3).
FirstPass == 1
LastPass == 2
\* The model test accepting every status but the else branch's.
ModelCreated_MismatchPasses(st) == st \in {OK, ENROLLMISMATCH}
\* enroll_finger: create_model() == OK.
ModelCreated(st) == st = OK
\* The store test catching only the flash error.
ModelStored_OnlyFlashErr(st) == st # FLASHERR
\* enroll_finger: store_model(location) == OK.
ModelStored(st) == st = OK
\* main: what the find action prints.
FindReport(found, id, conf) ==
    IF found THEN [kind |-> "found", id |-> id, conf |-> conf]
    ELSE [kind |-> "notfound", id |-> None, conf |-> None]
\* main: what the delete action prints.
DeleteReport(st) ==
    IF Deleted(st) THEN [kind |-> "deleted", id |-> None, conf |-> None]
    ELSE [kind |-> "notdeleted", id |-> None, conf |-> None]

\* ------------------------------------------------------------- main
\* setup_gpio(): open the chip and request the line, or exit with 1.
SetupGpio ==
    /\ pc = "setup_gpio"
    /\ \E ok \in BOOLEAN :
         IF ok THEN chipOpen' = TRUE /\ Goto("setup_uart")
         ELSE chipOpen' = chipOpen /\ Goto("exit1")
    /\ UNCHANGED << led, uartOpen, chan, trace, c, location, fingerimg, i, polls,
                    ret, finger_id, confidence, report >>

\* setup_uart(): open the serial port, or exit with 1.
SetupUart ==
    /\ pc = "setup_uart"
    /\ \E ok \in BOOLEAN :
         IF ok THEN uartOpen' = TRUE /\ Goto("verify_password")
         ELSE uartOpen' = uartOpen /\ Goto("exit1")
    /\ UNCHANGED << led, chipOpen, chan, trace, c, location, fingerimg, i, polls,
                    ret, finger_id, confidence, report >>

\* finger.verify_password(): the request goes out.
VerifyPasswordCall ==
    /\ pc = "verify_password"
    /\ Send("VerifyIdentity", 0, 151)
    /\ Goto("verify_password_wait")
    /\ UNCHANGED << led, chipOpen, uartOpen, trace, c, location, fingerimg, i,
                    polls, ret, finger_id, confidence, report >>

\* finger.verify_password() comes back: anything but OK ends the program.
VerifyPasswordReturn ==
    /\ pc = "verify_password_wait"
    /\ \E st \in VerifyReplies :
         /\ Receive(st)
         /\ IF st = RAISED THEN Propagate
            ELSE IF VerifyPassed(st) THEN Goto("read_templates")
            ELSE Goto("exit1")
    /\ UNCHANGED << led, chipOpen, uartOpen, c, location, fingerimg, i, polls,
                    ret, finger_id, confidence, report >>

\* Top of the menu loop: finger.read_templates(), the request goes out.
ReadTemplatesCall ==
    /\ pc = "read_templates"
    /\ Send("ReadTemplates", 0, 160)
    /\ Goto("read_templates_wait")
    /\ UNCHANGED << led, chipOpen, uartOpen, trace, c, location, fingerimg, i,
                    polls, ret, finger_id, confidence, report >>

\* finger.read_templates() comes back: anything but OK raises RuntimeError.
ReadTemplatesReturn ==
    /\ pc = "read_templates_wait"
    /\ \E st \in ReadTemplatesReplies :
         /\ Receive(st)
         /\ IF st = RAISED THEN Propagate
            ELSE IF TemplatesRead(st) THEN Goto("menu")
            ELSE Propagate
    /\ UNCHANGED << led, chipOpen, uartOpen, c, location, fingerimg, i, polls,
                    ret, finger_id, confidence, report >>

\* The quit branch without uart.close().
Quit_LeavesUartOpen ==
    /\ led' = 0
    /\ trace' = << LedWrite(0, 199), CloseEvent("chip", 200) >>
    /\ chipOpen' = FALSE
    /\ uartOpen' = uartOpen
    /\ Goto("done")
\* main, c == "q": led_line.set_value(0); chip.close(); uart.close(); break.
Quit ==
    /\ led' = 0
    /\ trace' = << LedWrite(0, 199), CloseEvent("chip", 200), CloseEvent("uart", 201) >>
    /\ chipOpen' = FALSE
    /\ uartOpen' = FALSE
    /\ Goto("done")

\* c = input("> ").lower() and the branch it selects, up to the branch's
\* first blocking call.
MenuInput ==
    /\ pc = "menu"
    /\ \E text \in MenuLines :
         /\ c' = Lower(text)
         /\ IF c' = "e" THEN
              /\ led' = 1
              /\ trace' = << LedWrite(1, 173) >>
              /\ Goto("enroll_input")
              /\ UNCHANGED << chipOpen, uartOpen >>
            ELSE IF c' = "f" THEN
              /\ led' = 1
              /\ trace' = << LedWrite(1, 181) >>
              /\ Goto("find_get_image")
              /\ UNCHANGED << chipOpen, uartOpen >>
            ELSE IF c' = "d" THEN
              /\ trace' = << >>
              /\ Goto("delete_input")
              /\ UNCHANGED << led, chipOpen, uartOpen >>
            ELSE IF c' = "q" THEN
              Quit
            ELSE
              /\ trace' = << >>
              /\ Goto("read_templates")
              /\ UNCHANGED << led, chipOpen, uartOpen >>
    /\ polls' = 0
    /\ ret' = FALSE
    /\ report' = NoReport
    /\ UNCHANGED << chan, location, fingerimg, i, finger_id, confidence >>

\* Enroll: location = int(input(...)); a valid slot starts enroll_finger, an
\* invalid one goes straight to led_line.set_value(0); int() may raise.
EnrollInput ==
    /\ pc = "enroll_input"
    /\ \E text \in SlotLines :
         IF ~IntParses(text) THEN
           /\ Propagate
           /\ UNCHANGED << led, trace, location, fingerimg >>
         ELSE
           /\ location' = IntOf(text)
           /\ IF EnrollLocationValid(location') THEN
                /\ fingerimg' = FirstPass
                /\ Goto("en_get_image")
                /\ UNCHANGED << led, trace >>
              ELSE
                /\ led' = 0
                /\ trace' = Append(trace, LedWrite(0, 177))
                /\ Goto("read_templates")
                /\ UNCHANGED fingerimg
    /\ UNCHANGED << chipOpen, uartOpen, chan, c, i, polls, ret, finger_id,
                    confidence, report >>

\* The return from enroll_finger without led_line.set_value(0).
EnrollReturn_LedLeftOn ==
    /\ pc = "enroll_return"
    /\ fingerimg' = 0
    /\ i' = OK
    /\ Goto("read_templates")
    /\ UNCHANGED << led, trace, chipOpen, uartOpen, chan, c, location, polls, ret,
                    finger_id, confidence, report >>

\* enroll_finger returned: led_line.set_value(0), back to the loop top.
EnrollReturn ==
    /\ pc = "enroll_return"
    /\ led' = 0
    /\ trace' = Append(trace, LedWrite(0, 177))
    /\ fingerimg' = 0
    /\ i' = OK
    /\ Goto("read_templates")
    /\ UNCHANGED << chipOpen, uartOpen, chan, c, location, polls, ret, finger_id,
                    confidence, report >>

\* get_fingerprint returned: print the outcome, led_line.set_value(0).
FindReturn ==
    /\ pc = "find_return"
    /\ report' = FindReport(ret, finger_id, confidence)
    /\ led' = 0
    /\ trace' = Append(trace, LedWrite(0, 186))
    /\ Goto("read_templates")
    /\ UNCHANGED << chipOpen, uartOpen, chan, c, location, fingerimg, i, polls,
                    ret, finger_id, confidence >>

\* Delete: location = int(input(...)); only a valid slot reaches the sensor.
DeleteInput ==
    /\ pc = "delete_input"
    /\ \E text \in SlotLines :
         IF ~IntParses(text) THEN
           /\ Propagate
           /\ UNCHANGED location
         ELSE
           /\ location' = IntOf(text)
           /\ IF DeleteLocationValid(location') THEN Goto("delete_model")
              ELSE Goto("read_templates")
    /\ UNCHANGED << led, chipOpen, uartOpen, chan, trace, c, fingerimg, i, polls,
                    ret, finger_id, confidence, report >>

\* finger.delete_model(location): the request goes out.
DeleteModelCall ==
    /\ pc = "delete_model"
    /\ Send("DeleteModel", location, 191)
    /\ Goto("delete_model_wait")
    /\ UNCHANGED << led, chipOpen, uartOpen, trace, c, location, fingerimg, i,
                    polls, ret, finger_id, confidence, report >>

\* finger.delete_model(location) comes back: print the outcome.
DeleteModelReturn ==
    /\ pc = "delete_model_wait"
    /\ \E st \in DeleteModelReplies :
         /\ Receive(st)
         /\ IF st = RAISED THEN Propagate /\ UNCHANGED report
            ELSE report' = DeleteReport(st) /\ Goto("read_templates")
    /\ UNCHANGED << led, chipOpen, uartOpen, c, location, fingerimg, i, polls,
                    ret, finger_id, confidence >>

\* --------------------------------------------------- get_fingerprint
\* while finger.get_image() != OK: the request goes out.
FindGetImageCall ==
    /\ pc = "find_get_image"
    /\ polls < MaxFindPolls
    /\ Send("CaptureImage", 0, 58)
    /\ polls' = polls + 1
    /\ Goto("find_get_image_wait")
    /\ UNCHANGED << led, chipOpen, uartOpen, trace, c, location, fingerimg, i,
                    ret, finger_id, confidence, report >>

\* finger.get_image() comes back: the loop condition decides.
FindGetImageReturn ==
    /\ pc = "find_get_image_wait"
    /\ \E st \in GetImageReplies :
         /\ Receive(st)
         /\ IF st = RAISED THEN Propagate
            ELSE IF ImageWaiting(st) THEN Goto("find_get_image")
            ELSE Goto("find_image_2_tz")
    /\ UNCHANGED << led, chipOpen, uartOpen, c, location, fingerimg, i, polls,
                    ret, finger_id, confidence, report >>

\* finger.image_2_tz(1): the request goes out.
FindImage2TzCall ==
    /\ pc = "find_image_2_tz"
    /\ Send("ExtractFeatures", 1, 62)
    /\ Goto("find_image_2_tz_wait")
    /\ UNCHANGED << led, chipOpen, uartOpen, trace, c, location, fingerimg, i,
                    polls, ret, finger_id, confidence, report >>

\* finger.image_2_tz(1) comes back: anything but OK returns False.
FindImage2TzReturn ==
    /\ pc = "find_image_2_tz_wait"
    /\ \E st \in Image2TzReplies :
         /\ Receive(st)
         /\ IF st = RAISED THEN Propagate /\ UNCHANGED ret
            ELSE IF TemplateFailed(st) THEN ret' = FALSE /\ Goto("find_return")
            ELSE Goto("find_search") /\ UNCHANGED ret
    /\ UNCHANGED << led, chipOpen, uartOpen, c, location, fingerimg, i, polls,
                    finger_id, confidence, report >>

\* finger.finger_search(): the request goes out.
FindSearchCall ==
    /\ pc = "find_search"
    /\ Send("GenerateMatchCandidates", 0, 66)
    /\ Goto("find_search_wait")
    /\ UNCHANGED << led, chipOpen, uartOpen, trace, c, location, fingerimg, i,
                    polls, ret, finger_id, confidence, report >>

\* finger.finger_search() comes back: the library stores the id and the
\* confidence the answer carries; anything but OK returns False.
FindSearchReturn ==
    /\ pc = "find_search_wait"
    /\ \E st \in SearchReplies :
         IF st = RAISED THEN
           /\ Receive(st)
           /\ Propagate
           /\ UNCHANGED << ret, finger_id, confidence >>
         ELSE
           \E id \in ReplyIds, conf \in ReplyConfidences :
             /\ ReceiveData(st, << id, conf >>)
             /\ finger_id' = id
             /\ confidence' = conf
             /\ ret' = ~SearchFailed(st)
             /\ Goto("find_return")
    /\ UNCHANGED << led, chipOpen, uartOpen, c, location, fingerimg, i, polls,
                    report >>

\* ----------------------------------------------------- enroll_finger
\* The capture loop, i = finger.get_image(): the request goes out.
EnrollGetImageCall ==
    /\ pc = "en_get_image"
    /\ polls < MaxCapturePolls
    /\ Send("CaptureImage", 0, 80)
    /\ polls' = polls + 1
    /\ Goto("en_get_image_wait")
    /\ UNCHANGED << led, chipOpen, uartOpen, trace, c, location, fingerimg, i,
                    ret, finger_id, confidence, report >>

\* The capture loop, get_image() comes back: break, poll again or return False.
EnrollGetImageReturn ==
    /\ pc = "en_get_image_wait"
    /\ \E st \in GetImageReplies :
         /\ Receive(st)
         /\ IF st = RAISED THEN Propagate /\ UNCHANGED << i, ret >>
            ELSE
              /\ i' = st
              /\ IF CaptureStep(st) = "break" THEN
                   Goto("en_image_2_tz") /\ UNCHANGED ret
                 ELSE IF CaptureStep(st) = "poll" THEN
                   Goto("en_get_image") /\ UNCHANGED ret
                 ELSE
                   ret' = FALSE /\ Goto("enroll_return")
    /\ UNCHANGED << led, chipOpen, uartOpen, c, location, fingerimg, polls,
                    finger_id, confidence, report >>

\* i = finger.image_2_tz(fingerimg): the request goes out.
EnrollImage2TzCall ==
    /\ pc = "en_image_2_tz"
    /\ Send("ExtractFeatures", fingerimg, 94)
    /\ Goto("en_image_2_tz_wait")
    /\ UNCHANGED << led, chipOpen, uartOpen, trace, c, location, fingerimg, i,
                    polls, ret, finger_id, confidence, report >>

\* image_2_tz(fingerimg) comes back: anything but OK returns False; after pass
\* 1 the lift loop runs while i != NOFINGER; then the next pass, or the model.
EnrollImage2TzReturn ==
    /\ pc = "en_image_2_tz_wait"
    /\ \E st \in Image2TzReplies :
         /\ Receive(st)
         /\ IF st = RAISED THEN
              Propagate /\ UNCHANGED << i, ret, fingerimg, polls >>
            ELSE
              /\ i' = st
              /\ IF ~Templated(st) THEN
                   ret' = FALSE /\ Goto("enroll_return") /\ UNCHANGED << fingerimg, polls >>
                 ELSE IF LiftAfter(fingerimg) /\ LiftPending(i') THEN
                   polls' = 0 /\ Goto("en_lift") /\ UNCHANGED << fingerimg, ret >>
                 ELSE IF fingerimg < LastPass THEN
                   /\ fingerimg' = fingerimg + 1
                   /\ polls' = 0
                   /\ Goto("en_get_image")
                   /\ UNCHANGED ret
                 ELSE
                   Goto("en_create_model") /\ UNCHANGED << fingerimg, ret, polls >>
    /\ UNCHANGED << led, chipOpen, uartOpen, c, location, finger_id, confidence,
                    report >>

\* The lift loop, i = finger.get_image(): the request goes out.
EnrollLiftCall ==
    /\ pc = "en_lift"
    /\ polls < MaxLiftPolls
    /\ Send("CaptureImage", 0, 112)
    /\ polls' = polls + 1
    /\ Goto("en_lift_wait")
    /\ UNCHANGED << led, chipOpen, uartOpen, trace, c, location, fingerimg, i,
                    ret, finger_id, confidence, report >>

\* The lift loop, get_image() comes back: while i != NOFINGER poll again, else
\* go on to the next pass.
EnrollLiftReturn ==
    /\ pc = "en_lift_wait"
    /\ \E st \in GetImageReplies :
         /\ Receive(st)
         /\ IF st = RAISED THEN
              Propagate /\ UNCHANGED << i, fingerimg, polls >>
            ELSE
              /\ i' = st
              /\ IF LiftPending(i') THEN
                   Goto("en_lift") /\ UNCHANGED << fingerimg, polls >>
                 ELSE IF fingerimg < LastPass THEN
                   /\ fingerimg' = fingerimg + 1
                   /\ polls' = 0
                   /\ Goto("en_get_image")
                 ELSE
                   Goto("en_create_model") /\ UNCHANGED << fingerimg, polls >>
    /\ UNCHANGED << led, chipOpen, uartOpen, c, location, ret, finger_id,
                    confidence, report >>

\* i = finger.create_model(): the request goes out.
EnrollCreateModelCall ==
    /\ pc = "en_create_model"
    /\ Send("BuildModel", 0, 115)
    /\ Goto("en_create_model_wait")
    /\ UNCHANGED << led, chipOpen, uartOpen, trace, c, location, fingerimg, i,
                    polls, ret, finger_id, confidence, report >>

\* create_model() comes back: anything but OK returns False.
EnrollCreateModelReturn ==
    /\ pc = "en_create_model_wait"
    /\ \E st \in CreateModelReplies :
         /\ Receive(st)
         /\ IF st = RAISED THEN Propagate /\ UNCHANGED << i, ret >>
            ELSE
              /\ i' = st
              /\ IF ModelCreated(st) THEN Goto("en_store_model") /\ UNCHANGED ret
                 ELSE ret' = FALSE /\ Goto("enroll_return")
    /\ UNCHANGED << led, chipOpen, uartOpen, c, location, fingerimg, polls,
                    finger_id, confidence, report >>

\* i = finger.store_model(location): the request goes out.
EnrollStoreModelCall ==
    /\ pc = "en_store_model"
    /\ Send("StoreModel", location, 126)
    /\ Goto("en_store_model_wait")
    /\ UNCHANGED << led, chipOpen, uartOpen, trace, c, location, fingerimg, i,
                    polls, ret, finger_id, confidence, report >>

\* store_model(location) comes back: OK returns True, anything else False.
EnrollStoreModelReturn ==
    /\ pc = "en_store_model_wait"
    /\ \E st \in StoreModelReplies :
         /\ Receive(st)
         /\ IF st = RAISED THEN Propagate /\ UNCHANGED << i, ret >>
            ELSE
              /\ i' = st
              /\ ret' = ModelStored(st)
              /\ Goto("enroll_return")
    /\ UNCHANGED << led, chipOpen, uartOpen, c, location, fingerimg, polls,
                    finger_id, confidence, report >>

\* ---------------------------------------------------- specification
Next ==
    \/ SetupGpio
    \/ SetupUart
    \/ VerifyPasswordCall
    \/ VerifyPasswordReturn
    \/ ReadTemplatesCall
    \/ ReadTemplatesReturn
    \/ MenuInput
    \/ EnrollInput
    \/ EnrollReturn
    \/ FindReturn
    \/ DeleteInput
    \/ DeleteModelCall
    \/ DeleteModelReturn
    \/ FindGetImageCall
    \/ FindGetImageReturn
    \/ FindImage2TzCall
    \/ FindImage2TzReturn
    \/ FindSearchCall
    \/ FindSearchReturn
    \/ EnrollGetImageCall
    \/ EnrollGetImageReturn
    \/ EnrollImage2TzCall
    \/ EnrollImage2TzReturn
    \/ EnrollLiftCall
    \/ EnrollLiftReturn
    \/ EnrollCreateModelCall
    \/ EnrollCreateModelReturn
    \/ EnrollStoreModelCall
    \/ EnrollStoreModelReturn

Spec == Init /\ [][Next]_vars

\* ---------------------------------- the identification poll, unbounded
\* get_fingerprint's poll has no bound in the code. These two actions follow
\* it for ever: the trace keeps the first MaxFindPolls answers that repeat
\* the poll and every answer that leaves it, and `polls` stops counting at
\* MaxFindPolls + 1.
FindGetImageCallLive ==
    /\ pc = "find_get_image"
    /\ Send("CaptureImage", 0, 58)
    /\ polls' = IF polls <= MaxFindPolls THEN polls + 1 ELSE polls
    /\ Goto("find_get_image_wait")
    /\ UNCHANGED << led, chipOpen, uartOpen, trace, c, location, fingerimg, i,
                    ret, finger_id, confidence, report >>

FindGetImageReturnLive ==
    /\ pc = "find_get_image_wait"
    /\ \E st \in GetImageReplies :
         /\ IF st # RAISED /\ ImageWaiting(st) /\ polls > MaxFindPolls
            THEN chan # << >> /\ chan' = Tail(chan) /\ trace' = trace
            ELSE Receive(st)
         /\ IF st = RAISED THEN Propagate
            ELSE IF ImageWaiting(st) THEN Goto("find_get_image")
            ELSE Goto("find_image_2_tz")
    /\ UNCHANGED << led, chipOpen, uartOpen, c, location, fingerimg, i, polls,
                    ret, finger_id, confidence, report >>

NextLive ==
    \/ SetupGpio
    \/ SetupUart
    \/ VerifyPasswordCall
    \/ VerifyPasswordReturn
    \/ ReadTemplatesCall
    \/ ReadTemplatesReturn
    \/ MenuInput
    \/ EnrollInput
    \/ EnrollReturn
    \/ FindReturn
    \/ DeleteInput
    \/ DeleteModelCall
    \/ DeleteModelReturn
    \/ FindGetImageCallLive
    \/ FindGetImageReturnLive
    \/ FindImage2TzCall
    \/ FindImage2TzReturn
    \/ FindSearchCall
    \/ FindSearchReturn
    \/ EnrollGetImageCall
    \/ EnrollGetImageReturn
    \/ EnrollImage2TzCall
    \/ EnrollImage2TzReturn
    \/ EnrollLiftCall
    \/ EnrollLiftReturn
    \/ EnrollCreateModelCall
    \/ EnrollCreateModelReturn
    \/ EnrollStoreModelCall
    \/ EnrollStoreModelReturn

\* The program is one sequential process that runs whenever it can: the user
\* answers every prompt and the library ends every round trip (with a status
\* or, after the read timeout, with an exception).
LiveSpec == Init /\ [][NextLive]_vars /\ WF_vars(NextLive)

\* ------------------------------------------------------ cancellation
\* The program installs no signal handler and takes no cancellation token:
\* the one signal that reaches it while it polls is SIGINT, which Python
\* raises as KeyboardInterrupt. `except Exception` in __main__ does not catch
\* it, so the process ends where it stands, a request possibly outstanding.
PollPoints == {"find_get_image", "find_get_image_wait", "en_get_image",
               "en_get_image_wait", "en_lift", "en_lift_wait"}
KeyboardInterrupt ==
    /\ pc \in PollPoints
    /\ pc' = "interrupted"
    /\ UNCHANGED << led, chipOpen, uartOpen, chan, trace, c, location, fingerimg,
                    i, polls, ret, finger_id, confidence, report, raised >>

NextCancel ==
    \/ Next
    \/ KeyboardInterrupt

CancelSpec == Init /\ [][NextCancel]_vars

\* ------------------------------------------------ reading the trace
\* The events of the current menu action: the completed ones, then the
\* requests still outstanding on the channel.
NEvents == Len(trace) + Len(chan)
Event(m) == IF m <= Len(trace) THEN trace[m] ELSE chan[m - Len(trace)]
Answered(m) == m <= Len(trace)
\* The commands of enroll_finger and of get_fingerprint.
EnrollOps == {"CaptureImage", "ExtractFeatures", "BuildModel", "StoreModel"}
FindOps == {"CaptureImage", "ExtractFeatures", "GenerateMatchCandidates"}
SlotActionOps == EnrollOps \cup {"DeleteModel"}
\* The menu action has ended: control is back at the loop top or the program is over.
AfterAction == pc \in {"read_templates", "read_templates_wait", "menu", "done", "exit1"}
\* Event m is the answered ExtractFeatures(1) = OK of an enrollment.
Pass1Extracted(m) ==
    /\ Answered(m)
    /\ trace[m].op = "ExtractFeatures" /\ trace[m].arg = 1 /\ trace[m].st = OK
\* The index of that event, 0 while there is none.
Pass1Index ==
    LET S == { j \in 1..Len(trace) : Pass1Extracted(j) }
    IN  IF S = {} THEN 0 ELSE CHOOSE j \in S : TRUE
\* The pass the enrollment is in at event m, given Pass1Index.
PassFrom(p1, m) == IF p1 # 0 /\ p1 < m THEN 2 ELSE 1

\* ------------------------------------------------------------ claims
\* C1: in an enrollment StoreModel is issued only after BuildModel returned
\* OK in the same enrollment; when BuildModel returned ENROLLMISMATCH the
\* enrollment returns False and StoreModel is never issued.
C1_StoreOnlyAfterBuildOk ==
    c = "e" =>
      /\ \A m \in 1..NEvents :
           Event(m).op = "StoreModel" =>
             \E j \in 1..(m - 1) :
               Answered(j) /\ trace[j].op = "BuildModel" /\ trace[j].st = OK
      /\ \A j \in 1..Len(trace) :
           (trace[j].op = "BuildModel" /\ trace[j].st = ENROLLMISMATCH) =>
             /\ \A m \in 1..NEvents : Event(m).op # "StoreModel"
             /\ ret = FALSE
             /\ pc = "enroll_return" \/ AfterAction
C1_Witness ==
    /\ pc = "enroll_return"
    /\ ret = FALSE
    /\ \E j \in 1..Len(trace) :
         trace[j].op = "BuildModel" /\ trace[j].st = ENROLLMISMATCH

\* C2: a slot id outside [1,127] entered for enroll or delete sends no
\* CaptureImage, ExtractFeatures, BuildModel, StoreModel or DeleteModel
\* between the reading of the slot id and the return to the menu.
C2_InvalidSlotSendsNothing ==
    ( /\ c \in {"e", "d"}
      /\ pc \notin {"enroll_input", "delete_input"}
      /\ (location < 1 \/ location > 127) ) =>
        /\ \A m \in 1..NEvents : Event(m).op \notin SlotActionOps
        /\ AfterAction
C2_Witness ==
    /\ pc = "menu"
    /\ c = "e"
    /\ location = 128
    /\ trace = << LedWrite(1, 173), LedWrite(0, 177),
                  [op |-> "ReadTemplates", arg |-> 0, line |-> 160, st |-> OK,
                   data |-> << >>] >>

\* C3: whenever an enroll or find action has ended, by a normal return or
\* by an exception that ends the program, the indicator line is off.
C3_LedOffOnEveryExit ==
    (c \in {"e", "f"} /\ AfterAction) => led = 0

\* C4: in an enrollment no capture poll of pass 2 and no ExtractFeatures(2)
\* is issued unless a CaptureImage issued after the ExtractFeatures(1) = OK
\* has returned NOFINGER before it.
C4_LiftBeforePass2 ==
    c = "e" =>
      LET p1 == Pass1Index IN
      \A m \in 1..NEvents :
        ( \/ (Event(m).op = "ExtractFeatures" /\ Event(m).arg = 2)
          \/ (Event(m).op = "CaptureImage" /\ Event(m).line = 80 /\ PassFrom(p1, m) = 2) ) =>
            /\ p1 # 0
            /\ \E k \in (p1 + 1)..(m - 1) :
                 /\ Answered(k)
                 /\ trace[k].op = "CaptureImage"
                 /\ trace[k].st = NOFINGER
C4_Witness ==
    /\ pc = "en_get_image_wait"
    /\ fingerimg = 2
    /\ \E j \in 1..Len(trace) :
         /\ Pass1Extracted(j)
         /\ Len(trace) = j + 2
         /\ trace[j + 1].op = "CaptureImage" /\ trace[j + 1].st = OK
         /\ trace[j + 2].op = "CaptureImage" /\ trace[j + 2].st = NOFINGER

\* C5: in an identification a CaptureImage that returned IMAGEFAIL is the
\* last command: no CaptureImage, ExtractFeatures or GenerateMatchCandidates
\* follows it and the identification has ended in failure.
C5_ImagingErrorEndsIdentification ==
    c = "f" =>
      \A k \in 1..Len(trace) :
        (trace[k].op = "CaptureImage" /\ trace[k].st = IMAGEFAIL) =>
          /\ \A m \in (k + 1)..NEvents : Event(m).op \notin FindOps
          /\ ret = FALSE
          /\ pc = "find_return" \/ AfterAction

\* C6: at the end of an identification the outcome is "not found" when the
\* search answered without a candidate, is another (error) outcome when
\* ExtractFeatures failed, and is otherwise a match with the id and the
\* confidence of the search answer.
C6_NoMatchDistinctFromError ==
    (c = "f" /\ report.kind # "none") =>
      \A k \in 1..Len(trace) :
        /\ (trace[k].op = "GenerateMatchCandidates" /\ trace[k].st # OK) =>
             report.kind = "notfound"
        /\ (trace[k].op = "ExtractFeatures" /\ trace[k].st # OK) =>
             report.kind # "notfound"
        /\ (trace[k].op = "GenerateMatchCandidates" /\ trace[k].st = OK) =>
             report = [kind |-> "found", id |-> trace[k].data[1],
                       conf |-> trace[k].data[2]]

\* The current identification got OK from CaptureImage, ExtractFeatures(1)
\* and GenerateMatchCandidates, in this order, and the report carries the id
\* and the confidence of that search answer.
AllThreeOk ==
    \E a \in 1..Len(trace), b \in 1..Len(trace), d \in 1..Len(trace) :
      /\ a < b /\ b < d
      /\ trace[a].op = "CaptureImage" /\ trace[a].st = OK
      /\ trace[b].op = "ExtractFeatures" /\ trace[b].arg = 1 /\ trace[b].st = OK
      /\ trace[d].op = "GenerateMatchCandidates" /\ trace[d].st = OK
      /\ report.id = trace[d].data[1]
      /\ report.conf = trace[d].data[2]
\* C7: a match is reported exactly when CaptureImage, ExtractFeatures(1) and
\* GenerateMatchCandidates all returned OK in the current identification, it
\* carries the id and confidence of that search answer, and no id or
\* confidence is reported otherwise.
C7_MatchOnlyOnSuccess ==
    /\ report.kind = "found" => (c = "f" /\ AllThreeOk)
    /\ (c = "f" /\ report.kind \in {"notfound", "found"} /\
        \E d \in 1..Len(trace) :
          trace[d].op = "GenerateMatchCandidates" /\ trace[d].st = OK) =>
         report.kind = "found"
    /\ report.kind # "found" => (report.id = None /\ report.conf = None)
C7_Witness ==
    /\ pc = "read_templates"
    /\ c = "f"
    /\ report = [kind |-> "found", id |-> 2, conf |-> 50]
    /\ trace[Len(trace) - 1].data = << 2, 50 >>

\* Event m is a poll of the capture loop of enroll_finger.
CaptureEvent(m) == Event(m).op = "CaptureImage" /\ Event(m).line = 80
\* The capture polls of the pass (running from event `from`) that ended with
\* the poll at event k.
PollsEndingAt(from, k) == { q \in from..k : \A t \in q..k : CaptureEvent(t) }
\* C8: in an enrollment capture pass NOFINGER is progress: a capture poll
\* that returned NOFINGER is followed by another capture poll, one that
\* returned OK is followed by ExtractFeatures(pass) and by no further poll of
\* the pass, so n NOFINGER answers and then OK make exactly n + 1 polls.
C8_NoFingerIsProgress ==
    c = "e" =>
      LET p1 == Pass1Index IN
      \A k \in 1..Len(trace) :
        CaptureEvent(k) =>
          LET pass == PassFrom(p1, k)
              run == PollsEndingAt(IF pass = 2 THEN p1 + 1 ELSE 1, k)
          IN
          /\ trace[k].st = NOFINGER =>
               IF k < NEvents THEN CaptureEvent(k + 1)
               ELSE pc = "en_get_image" /\ ~AfterAction
          /\ trace[k].st = OK =>
               /\ \A q \in run : q # k => trace[q].st = NOFINGER
               /\ IF k < NEvents
                  THEN Event(k + 1).op = "ExtractFeatures" /\ Event(k + 1).arg = pass
                  ELSE pc = "en_image_2_tz" /\ fingerimg = pass
               /\ (k = NEvents \/ (k + 1 = NEvents /\ ~Answered(k + 1))) =>
                    polls = Cardinality(run)
               /\ \A m \in (k + 1)..NEvents :
                    CaptureEvent(m) => PassFrom(p1, m) # pass
C8_Witness ==
    /\ pc = "en_image_2_tz_wait"
    /\ fingerimg = 1
    /\ polls = 4
    /\ Len(trace) = 5
    /\ \A q \in 2..4 : CaptureEvent(q) /\ trace[q].st = NOFINGER
    /\ CaptureEvent(5) /\ trace[5].st = OK
    /\ chan = << Request("ExtractFeatures", 1, 94) >>

\* C9: in an enrollment an IMAGEFAIL from a capture poll, or a status other
\* than OK from ExtractFeatures(pass), ends the enrollment: it returns False
\* and no later capture, ExtractFeatures, BuildModel or StoreModel is issued.
C9_TerminalStatusEndsEnrollment ==
    c = "e" =>
      \A k \in 1..Len(trace) :
        ( \/ (CaptureEvent(k) /\ trace[k].st = IMAGEFAIL)
          \/ (trace[k].op = "ExtractFeatures" /\ trace[k].st \notin {OK, RAISED}) ) =>
            /\ \A m \in (k + 1)..NEvents : Event(m).op \notin EnrollOps
            /\ ret = FALSE
            /\ pc = "enroll_return" \/ AfterAction
C9_Witness ==
    /\ pc = "enroll_return"
    /\ ret = FALSE
    /\ fingerimg = 2
    /\ trace[Len(trace)].op = "ExtractFeatures"
    /\ trace[Len(trace)].arg = 2
    /\ trace[Len(trace)].st = FEATUREFAIL

\* C10: in every polling loop (identification capture, enrollment capture,
\* enrollment lift) a CaptureImage status that is neither the awaited one
\* nor the looped one (NOFINGER while waiting for a finger, OK while waiting
\* for the lift) ends the composite operation: no further command of the
\* operation follows it.
C10_OnlyTwoLoopedConditions ==
    c \in {"e", "f"} =>
      \A k \in 1..Len(trace) :
        (trace[k].op = "CaptureImage" /\ trace[k].st \notin {OK, NOFINGER, RAISED}) =>
          /\ \A m \in (k + 1)..NEvents : Event(m).op \notin (EnrollOps \cup FindOps)
          /\ pc \in {"enroll_return", "find_return"} \/ AfterAction

\* C11 as stated: every identification comes to an end, whatever the sensor
\* answers (the poll is bounded by a maximum wait).
C11_IdentificationTerminates ==
    [](pc = "find_get_image" => <>(pc \in {"find_return", "exit1"}))
\* C11 as amended: the identification poll has no maximum wait: after every
\* answer but OK the program is back at the poll, however many polls were
\* made, and an identification is past the poll only after a CaptureImage
\* returned OK or a round trip raised.
C11_PollsUntilOk ==
    c = "f" =>
      /\ (chan = << >> /\ trace[Len(trace)].line = 58
            /\ trace[Len(trace)].st \notin {OK, RAISED}) =>
           pc = "find_get_image"
      /\ pc \notin {"find_get_image", "find_get_image_wait"} =>
           \/ \E k \in 1..Len(trace) : trace[k].line = 58 /\ trace[k].st = OK
           \/ /\ pc = "exit1"
              /\ \E k \in 1..Len(trace) : trace[k].line = 58 /\ trace[k].st = RAISED
C11_Witness ==
    /\ c = "f"
    /\ pc = "find_get_image"
    /\ polls = MaxFindPolls + 1
    /\ Len(trace) = MaxFindPolls + 1
    /\ \A k \in 2..Len(trace) : trace[k].line = 58 /\ trace[k].st = NOFINGER

\* C12: after a cancellation signal raised while identification or enrollment
\* polls CaptureImage, the operation has returned a Cancelled outcome and the
\* indicator line is off.
C12_CancelClearsActuator ==
    pc = "interrupted" => (led = 0 /\ report.kind = "cancelled")

\* C13: a round trip that raises at any step of an enrollment ends the
\* enrollment there: it is the last event, nothing is outstanding, the
\* exception reaches __main__ (the program exits through the handler), and
\* that outcome differs from every sensor-rejected failure, which returns
\* False to main without an exception.
C13_TransportFailureAborts ==
    c = "e" =>
      /\ \A k \in 1..Len(trace) :
           trace[k].st = RAISED =>
             /\ k = Len(trace)
             /\ chan = << >>
             /\ pc = "exit1"
             /\ raised
      /\ pc = "enroll_return" => ~raised
C13_Witness ==
    /\ c = "e"
    /\ pc = "exit1"
    /\ raised
    /\ fingerimg = 2
    /\ trace[Len(trace)].op = "CaptureImage"
    /\ trace[Len(trace)].line = 80
    /\ trace[Len(trace)].st = RAISED

\* The trace of the enrollment is: capture polls NOFINGER* OK,
\* ExtractFeatures(1) OK, lift polls ending with the first NOFINGER, capture
\* polls NOFINGER* OK, ExtractFeatures(2) OK, BuildModel OK,
\* StoreModel(location) OK.
EnrollSuccessTrace ==
    LET n == Len(trace)
        p1 == Pass1Index
    IN  /\ n >= 8
        /\ trace[1] = LedWrite(1, 173)
        /\ p1 >= 3
        /\ \A k \in 2..(p1 - 1) :
             CaptureEvent(k) /\ trace[k].st = (IF k = p1 - 1 THEN OK ELSE NOFINGER)
        /\ trace[n].op = "StoreModel" /\ trace[n].arg = location /\ trace[n].st = OK
        /\ trace[n - 1].op = "BuildModel" /\ trace[n - 1].st = OK
        /\ trace[n - 2].op = "ExtractFeatures" /\ trace[n - 2].arg = 2
        /\ trace[n - 2].st = OK
        /\ \E q \in (p1 + 1)..(n - 4) :
             /\ \A k \in (p1 + 1)..q :
                  /\ trace[k].op = "CaptureImage" /\ trace[k].line = 112
                  /\ (trace[k].st = NOFINGER) <=> (k = q)
             /\ \A k \in (q + 1)..(n - 3) :
                  CaptureEvent(k) /\ trace[k].st = (IF k = n - 3 THEN OK ELSE NOFINGER)
\* C14: enroll_finger returns True exactly when its trace is the successful
\* one; BuildModel and StoreModel are each issued at most once in an
\* enrollment and StoreModel carries the slot id the caller entered.
C14_SuccessExactlyOnFullTrace ==
    c = "e" =>
      /\ pc = "enroll_return" => (ret <=> EnrollSuccessTrace)
      /\ Cardinality({ m \in 1..NEvents : Event(m).op = "BuildModel" }) <= 1
      /\ Cardinality({ m \in 1..NEvents : Event(m).op = "StoreModel" }) <= 1
      /\ \A m \in 1..NEvents : Event(m).op = "StoreModel" => Event(m).arg = location
C14_Witness ==
    /\ pc = "enroll_return"
    /\ ret
    /\ location = 127
    /\ EnrollSuccessTrace
    /\ Len(trace) = 10

\* C15: a delete action with a slot id in [1,127] is one DeleteModel(slot)
\* round trip: the command is issued once, with the slot id entered, "deleted"
\* is reported exactly when it returned OK, no command of the composite
\* protocols is issued and the indicator line is not written.
C15_DeleteSingleRoundTrip ==
    c = "d" =>
      /\ led = 0
      /\ \A k \in 1..Len(trace) : trace[k].op # "Led"
      /\ Cardinality({ m \in 1..NEvents : Event(m).op = "DeleteModel" }) <= 1
      /\ \A m \in 1..NEvents :
           /\ Event(m).op \notin (EnrollOps \cup FindOps)
           /\ Event(m).op = "DeleteModel" =>
                (Event(m).arg = location /\ location \in 1..127)
      /\ (pc \in {"read_templates", "read_templates_wait", "menu"}
            /\ location \in 1..127) =>
           (trace # << >> /\ trace[1].op = "DeleteModel")
      /\ report.kind = "deleted" <=>
           \E k \in 1..Len(trace) : trace[k].op = "DeleteModel" /\ trace[k].st = OK
      /\ report.kind = "notdeleted" <=>
           \E k \in 1..Len(trace) :
             trace[k].op = "DeleteModel" /\ trace[k].st \notin {OK, RAISED}
C15_Witness ==
    /\ c = "d"
    /\ pc = "read_templates"
    /\ location = 127
    /\ report.kind = "deleted"
    /\ Len(trace) = 1
    /\ trace[1].op = "DeleteModel" /\ trace[1].arg = 127 /\ trace[1].st = OK

\* The program points at which a primitive has been called and not returned.
WaitPoints == {"verify_password_wait", "read_templates_wait", "delete_model_wait",
               "find_get_image_wait", "find_image_2_tz_wait", "find_search_wait",
               "en_get_image_wait", "en_image_2_tz_wait", "en_lift_wait",
               "en_create_model_wait", "en_store_model_wait"}
\* C16: at most one request is outstanding on the channel: a command is
\* written only when the previous one has been answered, and one is
\* outstanding exactly while the program is blocked in a primitive.
C16_OneRoundTripAtATime ==
    /\ Len(chan) <= 1
    /\ (chan # << >>) <=> (pc \in WaitPoints)
C16_Witness ==
    /\ pc = "en_store_model_wait"
    /\ chan = << Request("StoreModel", 1, 126) >>
    /\ Len(trace) >= 8
    /\ trace[Len(trace)].op = "BuildModel"

\* C17: VerifyIdentity is the first command of a run and is issued once;
\* unless it returned OK the program ends with that command as its only one.
\* (Until the first menu line is read, c = "" and the trace is the whole run.)
C17_VerifyFirstAndGate ==
    /\ \A m \in 1..NEvents : Event(m).op = "VerifyIdentity" => (c = "" /\ m = 1)
    /\ c = "" =>
      /\ pc \in {"setup_gpio", "setup_uart", "verify_password"} => NEvents = 0
      /\ NEvents >= 1 => Event(1).op = "VerifyIdentity"
      /\ \A m \in 2..NEvents : Event(m).op = "ReadTemplates"
      /\ (Answered(1) /\ trace[1].st # OK) => (NEvents = 1 /\ pc = "exit1")
      /\ pc \in {"read_templates", "read_templates_wait", "menu"} =>
           (Answered(1) /\ trace[1].st = OK)
C17_Witness ==
    /\ c = ""
    /\ pc = "exit1"
    /\ ~raised
    /\ Len(trace) = 1
    /\ trace[1].op = "VerifyIdentity"
    /\ trace[1].st = OTHERCODE

\* C18: the indicator line is on whenever a primitive of enrollment or
\* identification is in flight and off whenever the menu waits for a line;
\* an enroll or find action that returned to the menu loop wrote the line
\* twice: 1 before its first sensor command and 0 after its last.
C18_LedBracketsComposite ==
    /\ \A r \in 1..Len(chan) : chan[r].op \in (EnrollOps \cup FindOps) => led = 1
    /\ pc = "menu" => led = 0
    /\ (c \in {"e", "f"} /\ pc \in {"read_templates", "read_templates_wait", "menu"}) =>
         LET writes == { k \in 1..Len(trace) : trace[k].op = "Led" }
         IN  /\ Cardinality(writes) = 2
             /\ 1 \in writes /\ trace[1].arg = 1
             /\ \E z \in writes :
                  /\ z > 1
                  /\ trace[z].arg = 0
                  /\ \A k \in 1..Len(trace) :
                       trace[k].op \in (EnrollOps \cup FindOps) => (1 < k /\ k < z)
C18_Witness ==
    /\ c = "f"
    /\ pc = "menu"
    /\ led = 0
    /\ report.kind = "found"
    /\ Len(trace) = 6
    /\ trace[1] = LedWrite(1, 181)
    /\ trace[5] = LedWrite(0, 186)

\* C19: the quit action writes 0 to the line, then closes the chip, then the
\* serial port, and leaves the loop; once the port is closed nothing more is
\* sent or written and no step is left to take; the port is closed in no
\* state but the one quit ends in.
C19_QuitClosesLast ==
    /\ pc = "done" =>
         /\ c = "q"
         /\ led = 0 /\ ~chipOpen /\ ~uartOpen
         /\ trace = << LedWrite(0, 199), CloseEvent("chip", 200), CloseEvent("uart", 201) >>
         /\ chan = << >>
         /\ ~ENABLED Next
    /\ \A k \in 1..Len(trace) : trace[k].op = "Close" => pc = "done"
    /\ ~uartOpen =>
         \/ pc \in {"setup_gpio", "setup_uart", "done"}
         \/ pc = "exit1" /\ c = "" /\ trace = << >>
    /\ (c = "q" /\ ~raised) => pc = "done"
C19_Witness ==
    /\ pc = "done"
    /\ c = "q"
    /\ ~uartOpen
    /\ ~chipOpen
    /\ Len(trace) = 3
    /\ trace[3] = CloseEvent("uart", 201)

====
